---- MODULE Spec2Model ----
(***************************************************************************)
(* The chat assistant's message-assembly and response-policy pipeline:     *)
(* ChatbotService of chatbot_integration/chatbot_service.py.               *)
(*                                                                         *)
(* Text is a sequence of one-character strings, so that lower(), strip()   *)
(* and the keyword matcher are computed character by character.  Python's  *)
(* None is the one-element sequence None, whose element is no character.   *)
(***************************************************************************)
EXTENDS Integers, Sequences, FiniteSets, TLC

VARIABLES
    client,           \* self.client: TRUE = an InferenceClient, FALSE = None
    has_store_kw_re,  \* hasattr(self, "_store_kw_re")
    pc,               \* "idle" | "calling" (inside _call_model's retry loop) | "done"
    fn,               \* the entry point running
    user_message,     \* arguments of the running call
    chat_history,
    products,
    messages,         \* the list _build_messages returned
    attempt,          \* the retry loop's variable
    last_exc,         \* the wrapper's last_exc, <<>> = None
    calls,            \* remote chat_completion calls made by the running call
    raised,           \* the exceptions func raised, in order
    sleeps,           \* the arguments of time.sleep, in tenths of a second
    model_result,     \* what the wrapper returned (<<c>>) ...
    model_raised,     \* ... or raised (<<e>>)
    returned,         \* the envelopes returned to the caller
    escaped,          \* the exceptions that left the entry point
    sanitized,        \* the list _sanitize_products returned to _build_messages
    chatbot_service,  \* routes.shop._chatbot_service: 0 = None, else the instance's number
    constructed,      \* the ChatbotService instances constructed so far
    request,          \* the JSON body of the /chatbot request being handled
    http,             \* the responses sent for it: [status, body]
    invocations,      \* the service calls made for it
    memo,             \* an earlier _build_messages call on this instance: its
                      \* arguments and the list it returned
    thread_pc,        \* per request thread: where it is in the route and the service
    thread_service,   \* per request thread: the instance it holds, 0 = none
    store_kw_re_writes, \* per instance: the assignments made to self._store_kw_re
    product_stock,    \* Product.stock of each product, as committed
    cart_items,       \* the current user's CartItem rows, in query order
    orders,           \* the Order rows committed
    order_items,      \* per product: the quantity in the OrderItem rows committed
    flashed           \* the message the last shop handler flashed

\* the service instance and the call running on it
service_vars == <<client, has_store_kw_re, pc, fn, user_message, chat_history, products,
                  messages, attempt, last_exc, calls, raised, sleeps, model_result,
                  model_raised, returned, escaped, sanitized>>

\* the state outside the service instance
\* the /chatbot route and the module's lazy singleton
route_vars == <<chatbot_service, constructed, request, http, invocations>>

\* the record of an earlier build
memo_vars == <<memo>>

\* requests served by concurrent threads
thread_vars == <<thread_pc, thread_service, store_kw_re_writes>>

\* the shop's database rows and the flashed message
shop_vars == <<product_stock, cart_items, orders, order_items, flashed>>

other_vars == <<route_vars, memo_vars, thread_vars, shop_vars>>

\* what the /chatbot route leaves alone besides the service
not_route_vars == <<memo_vars, thread_vars, shop_vars>>

\* what a step outside the service and the route leaves alone
not_memo_vars == <<service_vars, route_vars, thread_vars, shop_vars>>

vars == <<service_vars, other_vars>>

-----------------------------------------------------------------------------
(* Text helpers *)

None == <<"None">>

\* the character U+20AC, one element of a text
EuroSign == "EURO SIGN"

UpperCase ==
    <<"A","B","C","D","E","F","G","H","I","J","K","L","M",
      "N","O","P","Q","R","S","T","U","V","W","X","Y","Z">>

LowerCase ==
    <<"a","b","c","d","e","f","g","h","i","j","k","l","m",
      "n","o","p","q","r","s","t","u","v","w","x","y","z">>

Digits == <<"0","1","2","3","4","5","6","7","8","9">>

Range(s) == { s[i] : i \in DOMAIN s }

\* str.lower() on one character
LowerChar(c) ==
    IF c \in Range(UpperCase)
    THEN LowerCase[CHOOSE i \in DOMAIN UpperCase : UpperCase[i] = c]
    ELSE c

\* str.lower()
Lower(text) == [i \in DOMAIN text |-> LowerChar(text[i])]

Whitespace == {" ", "\t", "\n", "\r", "\f"}

RECURSIVE LStrip(_)
LStrip(text) ==
    IF text # <<>> /\ Head(text) \in Whitespace THEN LStrip(Tail(text)) ELSE text

RECURSIVE RStrip(_)
RStrip(text) ==
    IF text # <<>> /\ text[Len(text)] \in Whitespace
    THEN RStrip(SubSeq(text, 1, Len(text) - 1))
    ELSE text

\* str.strip()
Strip(text) == RStrip(LStrip(text))

\* sub occurs in text at offset i (1-based)
OccursAt(sub, text, i) ==
    /\ i >= 1
    /\ i + Len(sub) - 1 <= Len(text)
    /\ SubSeq(text, i, i + Len(sub) - 1) = sub

\* sub in text
Contains(text, sub) == \E i \in 1..(Len(text) + 1) : OccursAt(sub, text, i)

\* bool(x) of a text or None
Truthy(text) == text # None /\ text # <<>>

-----------------------------------------------------------------------------
(* Class attributes and fixed texts of ChatbotService *)

MAX_HISTORY == 12

PRODUCT_LIMIT == 30

RETRIES == 2

\* delay=0.7, in tenths of a second
DELAY == 7

STORE_KEYWORDS ==
    { <<"a","v","a","i","l","a","b","i","l","i","t","y">>,
      <<"b","i","l","l","i","n","g">>,
      <<"b","r","a","n","d">>,
      <<"b","u","y">>,
      <<"c","a","r","t">>,
      <<"c","a","t","a","l","o","g">>,
      <<"c","a","t","e","g","o","r","y">>,
      <<"c","h","e","c","k","o","u","t">>,
      <<"c","o","l","o","r">>,
      <<"d","e","l","i","v","e","r","y">>,
      <<"i","n","v","o","i","c","e">>,
      <<"i","t","e","m">>,
      <<"o","r","d","e","r">>,
      <<"p","a","y","m","e","n","t">>,
      <<"p","r","i","c","e">>,
      <<"p","r","o","d","u","c","t">>,
      <<"p","u","r","c","h","a","s","e">>,
      <<"r","e","c","o","m","m","e","n","d">>,
      <<"r","e","c","o","m","m","e","n","d","a","t","i","o","n">>,
      <<"r","e","f","u","n","d">>,
      <<"r","e","t","u","r","n">>,
      <<"s","e","a","r","c","h">>,
      <<"s","h","i","p","p","i","n","g">>,
      <<"s","i","z","e">>,
      <<"s","k","u">>,
      <<"s","t","o","c","k">>,
      <<"t","r","a","c","k","i","n","g">>,
      <<"w","a","r","r","a","n","t","y">> }

REDIRECT_MESSAGE ==
    <<"I","'","m"," ","s","o","r","r","y",","," ","I"," ","c","a","n"," ","o","n","l","y"," ",
      "h","e","l","p"," ","w","i","t","h"," ","q","u","e","s","t","i","o","n","s"," ","r","e",
      "l","a","t","e","d"," ","t","o"," ","t","h","i","s"," ","s","h","o","p"," ","a","n","d",
      " ","i","t","s"," ","p","r","o","d","u","c","t","s","."," ","P","l","e","a","s","e"," ",
      "a","s","k"," ","a","b","o","u","t"," ","p","r","o","d","u","c","t","s",","," ","a","v",
      "a","i","l","a","b","i","l","i","t","y",","," ","p","r","i","c","e","s",","," ","o","r",
      "d","e","r","s",","," ","s","h","i","p","p","i","n","g",","," ","r","e","t","u","r","n",
      "s",","," ","o","r"," ","s","i","m","i","l","a","r"," ","s","h","o","p"," ","t","o","p",
      "i","c","s",".">>

\* self.system_instruction.  Nothing in the service looks inside it, so the whole
\* instruction is the one first element of the system message's text.
system_instruction ==
    << "You are a professional e-shop assistant. Your ONLY purpose is to help customers with:\n"
        \o "- Product information and search\n"
        \o "- Answering questions about available products\n"
        \o "- Recommendations based on customer needs\n"
        \o "- Help with orders, purchasing, shipping, returns, and billing\n"
        \o "\n"
        \o "STRICT RULES:\n"
        \o "- ONLY answer questions that are directly related to this e-shop and its products.\n"
        \o "- If a user asks anything outside the shop (personal advice, general knowledge, politics, etc.),\n"
        \o "  respond ONLY with a brief refusal and redirect them back to shop topics.\n"
        \o "- Do NOT provide jokes, opinions unrelated to products, or external factual summaries.\n"
        \o "- When refusing, use a short, polite redirection such as: 'I'm sorry, I can only help with questions related to this shop and its products...'\n" >>

ERROR_RESPONSE ==
    <<"S","o","r","r","y",","," ","a","n"," ","e","r","r","o","r"," ","o","c","c","u","r","r",
      "e","d","."," ","P","l","e","a","s","e"," ","t","r","y"," ","a","g","a","i","n"," ","l",
      "a","t","e","r",".">>

EMPTY_RESPONSE ==
    <<"S","o","r","r","y",","," ","I"," ","c","o","u","l","d","n","'","t"," ","g","e","n","e",
      "r","a","t","e"," ","a"," ","r","e","s","p","o","n","s","e","."," ","P","l","e","a","s",
      "e"," ","t","r","y"," ","a","g","a","i","n",".">>

NO_RESPONSE_ERROR ==
    <<"N","o"," ","r","e","s","p","o","n","s","e"," ","f","r","o","m"," ","A","P","I">>

CLIENT_NOT_INITIALIZED ==
    <<"H","u","g","g","i","n","g"," ","F","a","c","e"," ","c","l","i","e","n","t"," ","i","s",
      " ","n","o","t"," ","i","n","i","t","i","a","l","i","z","e","d",";"," ","m","i","s","s",
      "i","n","g"," ","A","P","I"," ","t","o","k","e","n">>

PRODUCTS_HEADER_PREFIX ==
    <<"\n","\n","A","v","a","i","l","a","b","l","e"," ","p","r","o","d","u","c","t","s"," ","(",
      "f","i","r","s","t"," ">>

PRODUCTS_HEADER_SUFFIX ==
    <<")",":","\n">>

-----------------------------------------------------------------------------
(* _is_store_related *)

\* The pattern is r"\\b(" + "|".join(...) + r")\\b".  In a raw string \\b is an
\* escaped backslash followed by the letter b, so the compiled expression matches a
\* keyword only between two literal occurrences of the characters backslash, b.
PATTERN_DELIMITER == <<"\\", "b">>

\* self._store_kw_re.search(text)
store_kw_re_search(text) ==
    \E i \in 1..Len(text) :
        /\ text[i] = Head(PATTERN_DELIMITER)
        /\ \E k \in STORE_KEYWORDS :
              OccursAt(PATTERN_DELIMITER \o k \o PATTERN_DELIMITER, text, i)

is_store_related(text) ==
    IF ~Truthy(text) THEN FALSE ELSE store_kw_re_search(Lower(text))

\* the call reaches the hasattr test, and so leaves the attribute set
reaches_compile(text) == Truthy(text)

-----------------------------------------------------------------------------
(* Python values of a raw product record's fields.  A float is held in hundredths. *)

Absent == [t |-> "absent", n |-> 0, s |-> <<>>]

PyNone == [t |-> "None", n |-> 0, s |-> <<>>]

PyInt(n) == [t |-> "int", n |-> n, s |-> <<>>]

PyFloat(h) == [t |-> "float", n |-> h, s |-> <<>>]

PyStr(s) == [t |-> "str", n |-> 0, s |-> s]

\* a dict with these four keys (Absent = no such key)
PyDict(name, description, price, stock) ==
    [isdict |-> TRUE, name |-> name, description |-> description,
     price |-> price, stock |-> stock]

\* a record that is no dict: p.get raises AttributeError
NotADict == [isdict |-> FALSE, name |-> Absent, description |-> Absent,
             price |-> Absent, stock |-> Absent]

\* dict.get(key, default)
Get(v, default) == IF v.t = "absent" THEN default ELSE v

\* x or y
Or(x, y) ==
    IF \/ x.t = "None"
       \/ (x.t \in {"int", "float"} /\ x.n = 0)
       \/ (x.t = "str" /\ x.s = <<>>)
    THEN y ELSE x

RECURSIVE NatToText(_)
NatToText(n) ==
    IF n < 10 THEN <<Digits[n + 1]>>
    ELSE NatToText(n \div 10) \o <<Digits[(n % 10) + 1]>>

\* str(n) of an int
IntToText(n) == IF n < 0 THEN <<"-">> \o NatToText(-n) ELSE NatToText(n)

Abs(n) == IF n < 0 THEN -n ELSE n

\* "%.2f" of a float held in hundredths
Fixed2(h) ==
    (IF h < 0 THEN <<"-">> ELSE <<>>)
        \o NatToText(Abs(h) \div 100) \o <<".">>
        \o <<Digits[((Abs(h) % 100) \div 10) + 1], Digits[(Abs(h) % 10) + 1]>>

\* str(f) of a float held in hundredths: the shortest repr, at least one decimal
FloatToText(h) ==
    (IF h < 0 THEN <<"-">> ELSE <<>>)
        \o NatToText(Abs(h) \div 100) \o <<".">>
        \o (IF Abs(h) % 10 = 0
            THEN <<Digits[((Abs(h) % 100) \div 10) + 1]>>
            ELSE <<Digits[((Abs(h) % 100) \div 10) + 1], Digits[(Abs(h) % 10) + 1]>>)

\* str(x)
Str(x) ==
    CASE x.t = "str" -> x.s
      [] x.t = "None" -> <<"N","o","n","e">>
      [] x.t = "int" -> IntToText(x.n)
      [] x.t = "float" -> FloatToText(x.n)

IsDigits(s) == s # <<>> /\ \A i \in DOMAIN s : s[i] \in Range(Digits)

DigitValue(c) == (CHOOSE i \in DOMAIN Digits : Digits[i] = c) - 1

RECURSIVE DigitsValue(_)
DigitsValue(s) ==
    IF s = <<>> THEN 0
    ELSE 10 * DigitsValue(SubSeq(s, 1, Len(s) - 1)) + DigitValue(s[Len(s)])

\* an optional sign taken off a numeric literal
Unsigned(s) == IF s # <<>> /\ Head(s) \in {"-", "+"} THEN Tail(s) ELSE s

Sign(s) == IF s # <<>> /\ Head(s) = "-" THEN -1 ELSE 1

\* int(s) of a str: surrounding whitespace, an optional sign, decimal digits;
\* anything else raises ValueError
ParseInt(s) ==
    LET u == Unsigned(Strip(s))
    IN  IF IsDigits(u)
        THEN [ok |-> TRUE, v |-> Sign(Strip(s)) * DigitsValue(u)]
        ELSE [ok |-> FALSE, v |-> 0]

\* float(s) of a str, in hundredths, for the literals of the form
\* [sign] digits [ "." [digit [digit]] ]; any other text of the model's inputs
\* is no number and raises ValueError
ParseFloat(s) ==
    LET u == Unsigned(Strip(s))
        dots == { i \in DOMAIN u : u[i] = "." }
        dot == CHOOSE i \in dots : TRUE
        whole == SubSeq(u, 1, dot - 1)
        frac == SubSeq(u, dot + 1, Len(u))
        frac2 == IF frac = <<>> THEN <<"0","0">>
                 ELSE IF Len(frac) = 1 THEN frac \o <<"0">> ELSE frac
    IN  IF IsDigits(u)
        THEN [ok |-> TRUE, v |-> Sign(Strip(s)) * 100 * DigitsValue(u)]
        ELSE IF /\ Cardinality(dots) = 1
                /\ IsDigits(whole)
                /\ Len(frac) <= 2
                /\ (frac = <<>> \/ IsDigits(frac))
        THEN [ok |-> TRUE,
              v |-> Sign(Strip(s)) * (100 * DigitsValue(whole) + DigitsValue(frac2))]
        ELSE [ok |-> FALSE, v |-> 0]

\* float(x), in hundredths
to_float(x) ==
    CASE x.t = "int" -> [ok |-> TRUE, v |-> 100 * x.n]
      [] x.t = "float" -> [ok |-> TRUE, v |-> x.n]
      [] x.t = "str" -> ParseFloat(x.s)
      [] OTHER -> [ok |-> FALSE, v |-> 0]

\* int(x): a float is truncated toward zero
to_int(x) ==
    CASE x.t = "int" -> [ok |-> TRUE, v |-> x.n]
      [] x.t = "float" ->
            [ok |-> TRUE, v |-> IF x.n < 0 THEN -((-x.n) \div 100) ELSE x.n \div 100]
      [] x.t = "str" -> ParseInt(x.s)
      [] OTHER -> [ok |-> FALSE, v |-> 0]

-----------------------------------------------------------------------------
(* _sanitize_products *)

\* the except branch's record
PLACEHOLDER == [name |-> <<"N","/","A">>, description |-> <<>>, price |-> 0, stock |-> 0]

\* p['price'] read without a default: a record with no price falls to the except branch
sanitize_one_price_required(p) ==
    IF ~p.isdict \/ p.price.t = "absent" THEN PLACEHOLDER
    ELSE LET price == to_float(Or(p.price, PyInt(0)))
             stock == to_int(Or(Get(p.stock, PyInt(0)), PyInt(0)))
         IN  IF price.ok /\ stock.ok
             THEN [name |-> Str(Get(p.name, PyStr(<<"N","/","A">>))),
                   description |-> Str(Or(Get(p.description, PyStr(<<>>)), PyStr(<<>>))),
                   price |-> price.v,
                   stock |-> stock.v]
             ELSE PLACEHOLDER

\* the body of the loop for one raw record p
sanitize_one(p) ==
    IF ~p.isdict THEN PLACEHOLDER
    ELSE LET price == to_float(Or(Get(p.price, PyInt(0)), PyInt(0)))
             stock == to_int(Or(Get(p.stock, PyInt(0)), PyInt(0)))
         IN  IF price.ok /\ stock.ok
             THEN [name |-> Str(Get(p.name, PyStr(<<"N","/","A">>))),
                   description |-> Str(Or(Get(p.description, PyStr(<<>>)), PyStr(<<>>))),
                   price |-> price.v,
                   stock |-> stock.v]
             ELSE PLACEHOLDER

\* the slice without its cap: products taken whole
FirstN_uncapped(s, n) == s

\* products[: self.PRODUCT_LIMIT]
FirstN(s, n) == SubSeq(s, 1, IF Len(s) < n THEN Len(s) ELSE n)

\* products is [kind |-> "None" | "list" | "dict", items |-> the list's records]
sanitize_products(prods) ==
    IF prods.kind = "None" \/ prods.items = <<>> THEN <<>>
    ELSE LET cut == FirstN(prods.items, PRODUCT_LIMIT)
         IN  [i \in DOMAIN cut |-> sanitize_one(cut[i])]

\* a truthy value that cannot be sliced makes products[:N] raise
sanitize_raises(prods) == prods.kind = "dict" /\ prods.items # <<>>

SLICE_ERROR ==
    <<"u","n","h","a","s","h","a","b","l","e"," ","t","y","p","e",":"," ","'","s","l","i","c","e","'">>

-----------------------------------------------------------------------------
(* _build_messages *)

\* seq[:n] taken for seq[-n:]: the oldest entries are kept
OldestN(s, n) == IF Len(s) <= n THEN s ELSE SubSeq(s, 1, n)

\* seq[-n:]
LastN(s, n) == IF Len(s) <= n THEN s ELSE SubSeq(s, Len(s) - n + 1, Len(s))

\* the f-string rendering one product line
product_line(p) ==
    <<"-"," ">> \o p.name \o <<":"," ">> \o p.description
        \o <<" ","(","P","r","i","c","e",":"," ", EuroSign>> \o Fixed2(p.price)
        \o <<","," ","S","t","o","c","k",":"," ">> \o IntToText(p.stock)
        \o <<")","\n">>

RECURSIVE product_lines(_)
product_lines(prod_list) ==
    IF prod_list = <<>> THEN <<>>
    ELSE product_line(Head(prod_list)) \o product_lines(Tail(prod_list))

system_message(prods) ==
    LET prod_list == sanitize_products(prods)
    IN  IF prod_list = <<>> THEN system_instruction
        ELSE system_instruction
                \o PRODUCTS_HEADER_PREFIX \o NatToText(Len(prod_list))
                \o PRODUCTS_HEADER_SUFFIX \o product_lines(prod_list)

\* a default list shared between calls: with no history passed, the entries an earlier
\* call left in it are used
history_or_empty_shared(hist) ==
    IF hist.kind = "None"
    THEN (IF memo.set THEN memo.chat_history.items ELSE <<>>)
    ELSE hist.items

\* chat_history or []
history_or_empty(hist) == IF hist.kind = "None" THEN <<>> ELSE hist.items

\* the user entry appended before the history
build_messages_user_first(um, hist, prods) ==
    LET history == LastN(history_or_empty(hist), MAX_HISTORY)
    IN  <<[role |-> "system", content |-> system_message(prods)]>>
            \o <<[role |-> "user", content |-> um]>>
            \o history

build_messages(um, hist, prods) ==
    LET history == LastN(history_or_empty(hist), MAX_HISTORY)
    IN  <<[role |-> "system", content |-> system_message(prods)]>>
            \o history
            \o <<[role |-> "user", content |-> um]>>

-----------------------------------------------------------------------------
(* Result envelopes of get_chatbot_response / get_chatbot_response_with_products *)

\* the redirect branch returning the model's text
redirect_envelope_keeps_text(response_text) ==
    [response |-> response_text, success |-> TRUE, redirected |-> TRUE]

redirect_envelope(response_text) ==
    [response |-> REDIRECT_MESSAGE, success |-> TRUE, redirected |-> TRUE]

success_envelope(response_text) ==
    [response |-> response_text, success |-> TRUE]

empty_envelope ==
    [response |-> EMPTY_RESPONSE, success |-> FALSE, error |-> NO_RESPONSE_ERROR]

\* the except branch answering with str(e)
error_envelope_leaks(e) ==
    [response |-> e, success |-> FALSE, error |-> e]

\* the except branch: e is str(e)
error_envelope(e) ==
    [response |-> ERROR_RESPONSE, success |-> FALSE, error |-> e]

\* str(e) of the AttributeError None.strip() raises
NONE_STRIP_ERROR ==
    <<"'","N","o","n","e","T","y","p","e","'"," ","o","b","j","e","c","t"," ","h","a","s"," ","n","o"," ","a","t","t","r","i","b","u","t","e"," ","'","s","t","r","i","p","'">>

\* A completion is [truthy |-> bool(response), choices |-> the contents of
\* response.choices[i].message.content, a text or None].
has_choices(c) == c.truthy /\ Len(c.choices) > 0

\* the policy test of the if statement, on the stripped text
off_topic(um, response_text) ==
    ~(is_store_related(um) \/ is_store_related(response_text))

\* the statements after _call_model returned c, up to the return or the raise:
\* [raises |-> TRUE, exc |-> str(e)] or [raises |-> FALSE, env |-> the envelope]
extract(c, um) ==
    IF has_choices(c)
    THEN IF c.choices[1] = None
         THEN [raises |-> TRUE, exc |-> NONE_STRIP_ERROR, env |-> empty_envelope]
         ELSE LET response_text == Strip(c.choices[1])
              IN  [raises |-> FALSE, exc |-> <<>>,
                   env |-> IF off_topic(um, response_text)
                           THEN redirect_envelope(response_text)
                           ELSE success_envelope(response_text)]
    ELSE [raises |-> FALSE, exc |-> <<>>, env |-> empty_envelope]

\* whether those statements compiled the matcher: `or` evaluates its right operand
\* only when the left one is false
extract_compiles(c, um) ==
    /\ has_choices(c)
    /\ c.choices[1] # None
    /\ \/ reaches_compile(um)
       \/ (~is_store_related(um) /\ reaches_compile(Strip(c.choices[1])))

-----------------------------------------------------------------------------
(* Inputs *)

\* the longest chat_history a caller passes
MaxHistoryLen == 14

T_HELLO == <<"h","e","l","l","o">>

T_PRICE_QUESTION ==
    <<"W","h","a","t"," ","i","s"," ","t","h","e"," ","p","r","i","c","e"," ","o","f"," ","t","h","i","s"," ","i","t","e","m","?">>

T_UPPER == <<"P","R","I","C","E","?">>

\* a keyword between literal backslash-b pairs
T_DELIMITED == <<"\\","b","p","r","i","c","e","\\","b">>

UserMessages == {None, <<>>, T_HELLO, T_PRICE_QUESTION, T_UPPER, T_DELIMITED}

R_GREETING == <<" ","H","i","!"," ">>

R_STOCK == <<"I","t"," ","i","s"," ","i","n"," ","s","t","o","c","k",".">>

R_BLANK == <<" "," ">>

R_DELIMITED == <<"\\","B","s","k","u","\\","B">>

Contents == {None, <<>>, R_BLANK, R_GREETING, R_STOCK, R_DELIMITED}

Completions ==
    {[truthy |-> FALSE, choices |-> <<>>], [truthy |-> TRUE, choices |-> <<>>]}
        \cup {[truthy |-> TRUE, choices |-> <<c>>] : c \in Contents}
        \cup {[truthy |-> TRUE, choices |-> <<R_STOCK, R_GREETING>>]}

E_TIMEOUT == <<"t","i","m","e","o","u","t">>

E_UNAVAILABLE == <<"H","T","T","P"," ","5","0","3">>

\* str(e) of what chat_completion raises
RemoteErrors == {E_TIMEOUT, E_UNAVAILABLE}

Roles == <<"user", "assistant">>

\* a conversation of n turns, turn i carrying the text "m<i>"
Conversation(n) ==
    [i \in 1..n |-> [role |-> Roles[((i - 1) % 2) + 1],
                     content |-> <<"m">> \o NatToText(i)]]

Histories ==
    {[kind |-> "None", items |-> <<>>]}
        \cup {[kind |-> "list", items |-> Conversation(n)] : n \in 0..MaxHistoryLen}

P_MUG ==
    PyDict(PyStr(<<"M","u","g">>), PyStr(<<"b","l","u","e">>), PyFloat(1250), PyInt(3))

P_BROKEN ==
    PyDict(PyStr(<<"P","e","n">>), PyNone, Absent, PyStr(<<"m","a","n","y">>))

NoProducts == [kind |-> "None", items |-> <<>>]

ProductArgs ==
    {NoProducts,
     [kind |-> "list", items |-> <<>>],
     [kind |-> "list", items |-> <<P_MUG, P_BROKEN>>],
     [kind |-> "dict", items |-> <<P_MUG>>]}

Functions == {"get_chatbot_response", "get_chatbot_response_with_products"}

\* the request threads of the process
NumThreads == 2

Threads == 1..NumThreads

\* the instances the threads can come to construct
Instances == 1..NumThreads

\* the products on sale
ProductIds == {1, 2}

\* the units of each product in stock at the start
MaxStock == 2

\* the largest quantity entered in the add-to-cart form
MaxQuantity == 2

\* the largest quantity a cart row is let grow to
MaxCartQuantity == 3

\* no build remembered
NoMemo ==
    [set |-> FALSE, user_message |-> <<>>,
     chat_history |-> [kind |-> "None", items |-> <<>>],
     products |-> [kind |-> "None", items |-> <<>>],
     compiled |-> FALSE, messages |-> <<>>]

-----------------------------------------------------------------------------
(* Bodies of POST /chatbot.  kind is what request.get_json() does or returns:       *)
(* "raises", "null" (None or an empty object), "list" (a JSON array holding the     *)
(* string "message") or "dict"; message and chat_history are Python values, the     *)
(* history a [t |-> "absent" | "str" | "list", items |-> its entries].              *)

NoRequest ==
    [kind |-> "none", message |-> Absent, chat_history |-> [t |-> "absent", items |-> <<>>]]

\* a JSON object {"role": r, "content": c}; "absent" for a missing key
Entry(r, c) == [isdict |-> TRUE, role |-> r, content |-> c]

\* an entry that is no JSON object
NotAnEntry == [isdict |-> FALSE, role |-> "absent", content |-> Absent]

\* n well-formed entries, entry i carrying "m<i>"
ClientConversation(n) ==
    [i \in 1..n |-> Entry(Roles[((i - 1) % 2) + 1], PyStr(<<"m">> \o NatToText(i)))]

ClientHistories ==
    {[t |-> "absent", items |-> <<>>],
     [t |-> "str", items |-> <<>>],
     [t |-> "list", items |-> <<>>],
     [t |-> "list", items |-> ClientConversation(2)],
     [t |-> "list", items |-> ClientConversation(MaxHistoryLen)],
     [t |-> "list", items |-> <<Entry("admin", PyStr(<<"o","b","e","y">>)), Entry("user", PyInt(7))>>],
     [t |-> "list", items |-> <<NotAnEntry, Entry("absent", PyStr(<<"x">>)),
                                Entry("user", Absent), Entry("assistant", PyStr(<<"o","k">>))>>]}

ClientMessages ==
    {Absent, PyNone, PyInt(5), PyStr(<<>>), PyStr(R_BLANK), PyStr(R_GREETING),
     PyStr(T_PRICE_QUESTION)}

Requests ==
    {[kind |-> k, message |-> Absent, chat_history |-> [t |-> "absent", items |-> <<>>]] :
        k \in {"raises", "null", "list"}}
        \cup {[kind |-> "dict", message |-> m, chat_history |-> h] :
                 m \in ClientMessages, h \in ClientHistories}

\* get_products_list(): the catalog rows, or [] when the query raised
DbProducts == {[kind |-> "list", items |-> <<>>], [kind |-> "list", items |-> <<P_MUG>>]}

-----------------------------------------------------------------------------
(* The service: construction, one call at a time *)

Init ==
    /\ client \in BOOLEAN
    /\ has_store_kw_re = FALSE
    /\ pc = "idle"
    /\ fn = "none"
    /\ user_message = <<>>
    /\ chat_history = [kind |-> "None", items |-> <<>>]
    /\ products = NoProducts
    /\ messages = <<>>
    /\ attempt = 0
    /\ last_exc = <<>>
    /\ calls = 0
    /\ raised = <<>>
    /\ sleeps = <<>>
    /\ model_result = <<>>
    /\ model_raised = <<>>
    /\ returned = <<>>
    /\ escaped = <<>>
    /\ sanitized = <<>>
    /\ chatbot_service = 0
    /\ constructed = 0
    /\ request = NoRequest
    /\ http = <<>>
    /\ invocations = 0
    /\ memo = NoMemo
    /\ thread_pc = [t \in Threads |-> "idle"]
    /\ thread_service = [t \in Threads |-> 0]
    /\ store_kw_re_writes = [i \in Instances |-> 0]
    /\ product_stock = [p \in ProductIds |-> MaxStock]
    /\ cart_items = <<>>
    /\ orders = 0
    /\ order_items = [p \in ProductIds |-> 0]
    /\ flashed = <<>>

\* an entry point without the except branch: the exception leaves it
on_exception_reraises(e) ==
    /\ returned' = returned
    /\ escaped' = Append(escaped, e)

\* `except Exception as e:` of the entry point, e being str(e)
on_exception(e) ==
    /\ returned' = Append(returned, error_envelope(e))
    /\ escaped' = escaped

\* the entry point's return statements
on_return(env) ==
    /\ returned' = Append(returned, env)
    /\ escaped' = escaped

\* range(retries) taken for range(retries + 1)
exhausted_early(a) == a = RETRIES

\* range(retries + 1) is used up after the attempt numbered a - 1
exhausted(a) == a = RETRIES + 1

\* time.sleep(delay * (attempt + 1))
backoff(a) == DELAY * (a + 1)

\* the exception the wrapper raises after the loop, given the new failure e
reraised(e) == e

\* get_chatbot_response(um, hist) / get_chatbot_response_with_products(um, hist, prods)
\* up to the first attempt of _call_model
call_body(f, um, hist, prods) ==
    /\ pc = "idle"
    /\ f = "get_chatbot_response" => prods = NoProducts
    /\ fn' = f
    /\ user_message' = um
    /\ chat_history' = hist
    /\ products' = prods
    /\ IF sanitize_raises(prods)
       THEN /\ on_exception(SLICE_ERROR)
            /\ pc' = "done"
            /\ messages' = <<>>
            /\ sanitized' = <<>>
       ELSE /\ messages' = build_messages(um, hist, prods)
            /\ sanitized' = sanitize_products(prods)
            /\ pc' = "calling"
            /\ UNCHANGED <<returned, escaped>>
    /\ UNCHANGED <<client, has_store_kw_re, attempt, last_exc, calls, raised, sleeps,
                   model_result, model_raised>>

\* a call made on the service directly
Call(f, um, hist, prods) ==
    /\ call_body(f, um, hist, prods)
    /\ UNCHANGED other_vars

\* the except branch of the wrapper for the failure e of func, and, when that was the
\* last attempt, `raise last_exc` and the entry point's handler
retry_except(e) ==
    /\ last_exc' = <<e>>
    /\ raised' = Append(raised, e)
    /\ sleeps' = Append(sleeps, backoff(attempt))
    /\ attempt' = attempt + 1
    /\ IF exhausted(attempt + 1)
       THEN /\ model_raised' = <<reraised(e)>>
            /\ on_exception(reraised(e))
            /\ pc' = "done"
       ELSE /\ pc' = "calling"
            /\ UNCHANGED <<model_raised, returned, escaped>>
    /\ UNCHANGED <<client, has_store_kw_re, fn, user_message, chat_history, products,
                   messages, model_result, sanitized>>
    /\ UNCHANGED other_vars

\* an attempt with self.client None: _call_model raises RuntimeError
ClientMissing ==
    /\ pc = "calling"
    /\ ~client
    /\ calls' = calls
    /\ retry_except(CLIENT_NOT_INITIALIZED)

\* an attempt whose chat_completion raises e
RemoteRaises(e) ==
    /\ pc = "calling"
    /\ client
    /\ calls' = calls + 1
    /\ retry_except(e)

\* an attempt whose chat_completion returns c, and the rest of the entry point
RemoteReturns(c) ==
    /\ pc = "calling"
    /\ client
    /\ calls' = calls + 1
    /\ model_result' = <<c>>
    /\ LET x == extract(c, user_message)
       IN  IF x.raises THEN on_exception(x.exc) ELSE on_return(x.env)
    /\ has_store_kw_re' = (has_store_kw_re \/ extract_compiles(c, user_message))
    /\ pc' = "done"
    /\ UNCHANGED <<client, fn, user_message, chat_history, products, messages, attempt,
                   last_exc, raised, sleeps, model_raised, sanitized>>
    /\ UNCHANGED other_vars

\* the call's locals go away with its frame
return_body ==
    /\ pc = "done"
    /\ pc' = "idle"
    /\ fn' = "none"
    /\ user_message' = <<>>
    /\ chat_history' = [kind |-> "None", items |-> <<>>]
    /\ products' = NoProducts
    /\ messages' = <<>>
    /\ attempt' = 0
    /\ last_exc' = <<>>
    /\ calls' = 0
    /\ raised' = <<>>
    /\ sleeps' = <<>>
    /\ model_result' = <<>>
    /\ model_raised' = <<>>
    /\ returned' = <<>>
    /\ escaped' = <<>>
    /\ sanitized' = <<>>
    /\ UNCHANGED <<client, has_store_kw_re>>

\* the caller takes the result; the service is ready for the next call
Return ==
    /\ return_body
    /\ request = NoRequest
    /\ UNCHANGED other_vars

Next ==
    \/ \E f \in Functions, um \in UserMessages, hist \in Histories, prods \in ProductArgs :
          Call(f, um, hist, prods)
    \/ ClientMissing
    \/ \E e \in RemoteErrors : RemoteRaises(e)
    \/ \E c \in Completions : RemoteReturns(c)
    \/ Return

Spec == Init /\ [][Next]_vars

-----------------------------------------------------------------------------
(* Properties *)

Finished == pc = "done"

\* the text of an envelope field is free of the text sub
FieldFree(env, field, sub) == field \in DOMAIN env => ~Contains(env[field], sub)

\* the first candidate's text of the completion the wrapper returned
Candidate == model_result[1].choices[1]

GotCandidate ==
    /\ Finished
    /\ model_result # <<>>
    /\ has_choices(model_result[1])
    /\ Candidate # None

WordChars == Range(UpperCase) \cup Range(LowerCase) \cup Range(Digits) \cup {"_"}

\* text holds a vocabulary term as a whole word, in any letter case
WholeWordKeyword(text) ==
    /\ Truthy(text)
    /\ \E k \in STORE_KEYWORDS : \E i \in 1..Len(text) :
          /\ OccursAt(k, Lower(text), i)
          /\ (i = 1 \/ text[i - 1] \notin WordChars)
          /\ (i + Len(k) > Len(text) \/ text[i + Len(k)] \notin WordChars)

\* what holds of the envelopes in every state of a call
C1_EnvelopeState ==
    /\ escaped = <<>>
    /\ pc = "calling" => (attempt <= RETRIES /\ returned = <<>>)
    /\ pc = "idle" => returned = <<>>
    /\ Finished =>
          /\ Len(returned) = 1
          /\ {"response", "success"} \subseteq DOMAIN returned[1]
          /\ returned[1].success \in BOOLEAN

\* an attempt of the retry loop either ends the call or is the next attempt
C1_AttemptStep ==
    pc = "calling" => (pc' = "done" \/ (pc' = "calling" /\ attempt' = attempt + 1))

\* C1: every call of either entry point ends by returning exactly one envelope that
\* carries 'response' and 'success', whatever the arguments and whatever the remote
\* call did on each attempt; no exception leaves the entry point, and the retry loop
\* never runs past its last attempt.
C1_AlwaysOneEnvelope == [](C1_EnvelopeState) /\ [][C1_AttemptStep]_vars

\* a call that ended through the except branch after the remote call failed
C1_Witness ==
    /\ Finished
    /\ client
    /\ model_raised # <<>>
    /\ Len(returned) = 1

\* C2: when the remote call raised on every one of the R+1 attempts, the envelope has
\* success = false, its response is the fixed apology and holds the text of none of the
\* raised exceptions; the exception text is in the error field only.
C2_FailureIsGenericApology ==
    (Finished /\ client /\ calls = RETRIES + 1 /\ Len(raised) = RETRIES + 1) =>
        /\ returned[1].success = FALSE
        /\ returned[1].response = ERROR_RESPONSE
        /\ \A i \in DOMAIN raised : ~Contains(returned[1].response, raised[i])
        /\ DOMAIN returned[1] = {"response", "success", "error"}
        /\ returned[1].error = raised[RETRIES + 1]

C2_Witness ==
    /\ Finished
    /\ client
    /\ calls = RETRIES + 1
    /\ raised = <<E_TIMEOUT, E_TIMEOUT, E_UNAVAILABLE>>
    /\ returned[1].error = E_UNAVAILABLE

\* C3: with the client never configured the invocation fails at once: one attempt,
\* no retry, no backoff sleep, and a failed envelope.
C3_ClientMissingFailsAtOnce ==
    ~client =>
        /\ Len(raised) <= 1
        /\ sleeps = <<>>
        /\ (Finished => returned[1].success = FALSE)

\* C4: with a configured client one invocation makes at most R+1 remote calls; if
\* every call raised, exactly R+1 were made and the wrapper raised the exception of
\* the last one; if call k returned, the wrapper returned after k calls, all earlier
\* ones having raised, and raised nothing.
C4_BoundedRetry ==
    client =>
        /\ calls <= RETRIES + 1
        /\ model_raised # <<>> =>
              /\ calls = RETRIES + 1
              /\ Len(raised) = RETRIES + 1
              /\ model_raised = <<raised[RETRIES + 1]>>
              /\ model_result = <<>>
        /\ model_result # <<>> =>
              /\ calls = Len(raised) + 1
              /\ calls \in 1..(RETRIES + 1)
              /\ model_raised = <<>>
              /\ Finished

\* every call raised, the last one differently from the first
C4_Witness ==
    /\ Finished
    /\ client
    /\ calls = RETRIES + 1
    /\ raised[1] = E_UNAVAILABLE
    /\ raised[RETRIES + 1] = E_TIMEOUT
    /\ model_raised = <<E_TIMEOUT>>

\* the completion exposes no usable candidate text
NoUsableCandidate ==
    /\ Finished
    /\ model_result # <<>>
    /\ \/ ~has_choices(model_result[1])
       \/ Candidate = None
       \/ Strip(Candidate) = <<>>

\* C5: a completion with no candidate, or whose first candidate's text is empty,
\* whitespace-only or absent, ends in EmptyResponse: success = false, the 'no response'
\* error and the fallback text.
C5_EmptyCompletionIsEmptyResponse ==
    NoUsableCandidate => returned[1] = empty_envelope

C7_OnTopicIsSuccessVerbatim ==
    (/\ GotCandidate
     /\ Candidate # <<>>
     /\ (WholeWordKeyword(user_message) \/ WholeWordKeyword(Candidate))) =>
        returned[1] = [response |-> Candidate, success |-> TRUE]

\* C8: _is_store_related is false for an empty or absent text and true for a text
\* holding a vocabulary term as a whole word in any letter case, "What is the price of
\* this item?" among them; stated of the user message of the running call.
C8_ClassifierFindsWholeWords ==
    /\ ~Truthy(user_message) => ~is_store_related(user_message)
    /\ WholeWordKeyword(user_message) => is_store_related(user_message)
    /\ user_message = T_PRICE_QUESTION => is_store_related(user_message)

\* the entries of messages between the system message and the final user message
Between == SubSeq(messages, 2, Len(messages) - 1)

\* C9: for a history longer than H the built messages hold, between the system message
\* and the final user message, exactly the last H entries of the history in their
\* order; a history of at most H entries is held whole.
C9_HistoryKeepsLastH ==
    messages # <<>> =>
        LET h == chat_history.items
            n == Len(h)
        IN  IF n > MAX_HISTORY
            THEN /\ Len(Between) = MAX_HISTORY
                 /\ \A j \in 1..MAX_HISTORY : Between[j] = h[n - MAX_HISTORY + j]
            ELSE Between = h

C9_Witness ==
    /\ pc = "calling"
    /\ Len(chat_history.items) > MAX_HISTORY
    /\ Len(Between) = MAX_HISTORY

\* C10: every built message list is [system] + trimmed history + [user]: the first
\* element has role system, the last has role user and the user_message argument as
\* content, and the length is min(len(history), H) + 2.
C10_MessageShape ==
    messages # <<>> =>
        LET n == Len(chat_history.items)
        IN  /\ messages[1].role = "system"
            /\ messages[Len(messages)].role = "user"
            /\ messages[Len(messages)].content = user_message
            /\ Len(messages) = (IF n < MAX_HISTORY THEN n ELSE MAX_HISTORY) + 2

C10_Witness ==
    /\ pc = "calling"
    /\ user_message = T_PRICE_QUESTION
    /\ Len(chat_history.items) = 3
    /\ Len(messages) = 5
    /\ messages[5].content = T_PRICE_QUESTION

\* C16: the sleep after failed attempt n (counted from 1) lasts DELAY * n, and a sleep
\* is only taken before a re-attempt: after the last (RETRIES + 1-th) failed attempt the
\* exception is raised with no further sleep, so a call that fails every attempt sleeps
\* exactly RETRIES times.
C16_SleepsOnlyBeforeReattempt ==
    /\ \A n \in 1..Len(sleeps) : sleeps[n] = DELAY * n
    /\ Len(raised) = RETRIES + 1 => Len(sleeps) = RETRIES

-----------------------------------------------------------------------------
(* _build_messages and _sanitize_products called on catalogs of every length *)

\* the longest products list a caller passes
MaxProducts == 32

P_NO_PRICE == PyDict(PyStr(<<"C","a","p">>), Absent, Absent, PyInt(2))

P_NEGATIVE == PyDict(PyStr(<<"B","a","g">>), PyStr(<<"r","e","d">>), PyFloat(-350), PyInt(-2))

P_TEXT_NUMBERS == PyDict(PyStr(<<"H","a","t">>), PyStr(<<>>), PyStr(<<"7",".","5">>), PyStr(<<" ","4"," ">>))

RawProducts == <<P_MUG, P_BROKEN, NotADict, P_NO_PRICE, P_NEGATIVE, P_TEXT_NUMBERS>>

\* a products list of n records, starting at the k-th raw record
Catalog(n, k) ==
    [i \in 1..n |-> RawProducts[((i + k - 1) % Len(RawProducts)) + 1]]

Catalogs ==
    {NoProducts}
        \cup {[kind |-> "list", items |-> Catalog(n, k)] :
                 n \in 0..MaxProducts, k \in 0..(Len(RawProducts) - 1)}

BuildHistories ==
    {[kind |-> "None", items |-> <<>>], [kind |-> "list", items |-> Conversation(2)]}

\* _build_messages(um, hist, prods) called on its own
Build(um, hist, prods) ==
    /\ pc = "idle"
    /\ pc' = "built"
    /\ fn' = "_build_messages"
    /\ user_message' = um
    /\ chat_history' = hist
    /\ products' = prods
    /\ sanitized' = sanitize_products(prods)
    /\ messages' = build_messages(um, hist, prods)
    /\ UNCHANGED <<client, has_store_kw_re, attempt, last_exc, calls, raised, sleeps,
                   model_result, model_raised, returned, escaped>>
    /\ UNCHANGED other_vars

\* the caller drops the built list
Discard ==
    /\ pc = "built"
    /\ pc' = "idle"
    /\ fn' = "none"
    /\ user_message' = <<>>
    /\ chat_history' = [kind |-> "None", items |-> <<>>]
    /\ products' = NoProducts
    /\ sanitized' = <<>>
    /\ messages' = <<>>
    /\ UNCHANGED <<client, has_store_kw_re, attempt, last_exc, calls, raised, sleeps,
                   model_result, model_raised, returned, escaped>>
    /\ UNCHANGED other_vars

BuildNext ==
    \/ \E um \in {T_HELLO}, hist \in BuildHistories, prods \in Catalogs :
          Build(um, hist, prods)
    \/ Discard

BuildSpec == Init /\ [][BuildNext]_vars

Built == pc = "built"

Min(a, b) == IF a < b THEN a ELSE b

\* the text of the system message after the instruction
ProductBlock == Tail(messages[1].content)

\* the rendered product lines: the places of ProductBlock where a line starts with "- "
RenderedLines ==
    { i \in 1..(Len(ProductBlock) - 1) :
        /\ ProductBlock[i] = "-"
        /\ ProductBlock[i + 1] = " "
        /\ i > 1
        /\ ProductBlock[i - 1] = "\n" }

\* the count the header states: the digits between "(first " and "):"
HeaderCount ==
    LET from == Len(PRODUCTS_HEADER_PREFIX) + 1
        close == CHOOSE i \in from..Len(ProductBlock) :
                    /\ ProductBlock[i] = ")"
                    /\ \A j \in from..(i - 1) : ProductBlock[j] # ")"
    IN  DigitsValue(SubSeq(ProductBlock, from, close - 1))

\* what _sanitize_products makes of each raw record of the model
ExpectedEntry(p) ==
    CASE p = P_MUG ->
            [name |-> <<"M","u","g">>, description |-> <<"b","l","u","e">>, price |-> 1250, stock |-> 3]
      [] p = P_NO_PRICE ->
            [name |-> <<"C","a","p">>, description |-> <<>>, price |-> 0, stock |-> 2]
      [] p = P_NEGATIVE ->
            [name |-> <<"B","a","g">>, description |-> <<"r","e","d">>, price |-> -350, stock |-> -2]
      [] p = P_TEXT_NUMBERS ->
            [name |-> <<"H","a","t">>, description |-> <<>>, price |-> 750, stock |-> 4]
      [] OTHER ->
            [name |-> <<"N","/","A">>, description |-> <<>>, price |-> 0, stock |-> 0]

RECURSIVE ExpectedLines(_, _)
ExpectedLines(items, n) ==
    IF n = 0 \/ items = <<>> THEN <<>>
    ELSE product_line(ExpectedEntry(Head(items))) \o ExpectedLines(Tail(items), n - 1)

\* C11: the system message renders min(len(products), P) product lines, those of the
\* first P records in the caller's order; the count in the header equals the number of
\* lines rendered; and there is no product block when products is empty or absent.
C11_ProductBlock ==
    Built =>
        LET n == Len(products.items)
        IN  IF n = 0
            THEN messages[1].content = system_instruction
            ELSE /\ Head(messages[1].content) = Head(system_instruction)
                 /\ Cardinality(RenderedLines) = Min(n, PRODUCT_LIMIT)
                 /\ HeaderCount = Cardinality(RenderedLines)
                 /\ ProductBlock =
                        PRODUCTS_HEADER_PREFIX \o NatToText(Min(n, PRODUCT_LIMIT))
                            \o PRODUCTS_HEADER_SUFFIX
                            \o ExpectedLines(products.items, PRODUCT_LIMIT)

C11_Witness ==
    /\ Built
    /\ Len(products.items) = PRODUCT_LIMIT + 1
    /\ Cardinality(RenderedLines) = PRODUCT_LIMIT
    /\ HeaderCount = PRODUCT_LIMIT

\* C12: _sanitize_products never aborts on a malformed record: n records give
\* min(n, P) entries, entry i made from record i alone; a record whose coercion fails
\* gives the placeholder (N/A, '', 0.0, 0) and leaves the other entries as they are; a
\* record with no price gives price 0.0.
C12_SanitizeIsPerRecord ==
    Built =>
        /\ Len(sanitized) = Min(Len(products.items), PRODUCT_LIMIT)
        /\ \A i \in DOMAIN sanitized :
              /\ sanitized[i] = ExpectedEntry(products.items[i])
              /\ products.items[i] \in {P_BROKEN, NotADict} =>
                    sanitized[i] = [name |-> <<"N","/","A">>, description |-> <<>>,
                                    price |-> 0, stock |-> 0]
              /\ products.items[i] = P_NO_PRICE =>
                    (sanitized[i].price = 0 /\ sanitized[i].stock = 2)

\* a catalog holding a good record, two malformed ones and one with no price
C12_Witness ==
    /\ Built
    /\ Len(sanitized) >= 4
    /\ products.items[1] = P_MUG
    /\ sanitized[1].price = 1250
    /\ products.items[2] = P_BROKEN
    /\ products.items[3] = NotADict
    /\ sanitized[2] = sanitized[3]
    /\ products.items[4] = P_NO_PRICE
    /\ sanitized[4].price = 0

\* C13: every entry _sanitize_products returns has price >= 0 and stock >= 0, also for
\* raw records whose price or stock is a negative number.
C13_NonNegative ==
    Built => \A i \in DOMAIN sanitized : sanitized[i].price >= 0 /\ sanitized[i].stock >= 0

-----------------------------------------------------------------------------
(* _build_messages called again on an instance that other calls have used *)

DetUserMessages == {T_HELLO, T_PRICE_QUESTION}

DetProducts ==
    {NoProducts,
     [kind |-> "list", items |-> <<P_MUG, P_BROKEN>>],
     [kind |-> "list", items |-> Catalog(PRODUCT_LIMIT + 1, 0)]}

\* the arguments and the result of the build just made are kept for comparison
Remember ==
    /\ Built
    /\ memo' = [set |-> TRUE, user_message |-> user_message,
                chat_history |-> chat_history, products |-> products,
                compiled |-> has_store_kw_re, messages |-> messages]
    /\ UNCHANGED not_memo_vars

\* _is_store_related(text) called on its own, between two builds
Classify(text) ==
    /\ pc = "idle"
    /\ has_store_kw_re' = (has_store_kw_re \/ reaches_compile(text))
    /\ UNCHANGED <<client, pc, fn, user_message, chat_history, products, messages,
                   attempt, last_exc, calls, raised, sleeps, model_result, model_raised,
                   returned, escaped, sanitized>>
    /\ UNCHANGED other_vars

DetNext ==
    \/ \E um \in DetUserMessages, hist \in BuildHistories, prods \in DetProducts :
          Build(um, hist, prods)
    \/ Remember
    \/ Discard
    \/ \E text \in UserMessages : Classify(text)

DetSpec == Init /\ [][DetNext]_vars

SameArguments ==
    /\ memo.set
    /\ memo.user_message = user_message
    /\ memo.chat_history = chat_history
    /\ memo.products = products

-----------------------------------------------------------------------------
(* routes/shop.py: POST /chatbot *)

NO_MESSAGE_RESPONSE == <<"P","l","e","a","s","e"," ","s","e","n","d"," ","a"," ","v","a","l","i","d"," ","m","e","s","s","a","g","e",".">>

NO_MESSAGE_ERROR == <<"N","o"," ","m","e","s","s","a","g","e"," ","r","e","c","e","i","v","e","d">>

EMPTY_MESSAGE_RESPONSE == <<"P","l","e","a","s","e"," ","e","n","t","e","r"," ","a"," ","m","e","s","s","a","g","e",".">>

EMPTY_MESSAGE_ERROR == <<"E","m","p","t","y"," ","m","e","s","s","a","g","e">>

SERVER_ERROR_RESPONSE == <<"S","o","r","r","y",","," ","a"," ","s","e","r","v","e","r"," ","e","r","r","o","r"," ","o","c","c","u","r","r","e","d","."," ","P","l","e","a","s","e"," ","t","r","y"," ","a","g","a","i","n",".">>

\* str(e) of the BadRequest request.get_json() raises
BAD_JSON_ERROR ==
    <<"4","0","0"," ","B","a","d"," ","R","e","q","u","e","s","t",":"," ","T","h","e"," ","b","r","o","w","s","e","r"," ","(","o","r"," ","p","r","o","x","y",")"," ","s","e","n","t"," ","a"," ","r","e","q","u","e","s","t"," ","t","h","a","t"," ","t","h","i","s"," ","s","e","r","v","e","r"," ","c","o","u","l","d"," ","n","o","t"," ","u","n","d","e","r","s","t","a","n","d",".">>

\* str(e) of the AttributeError of [...].get
LIST_GET_ERROR == <<"'","l","i","s","t","'"," ","o","b","j","e","c","t"," ","h","a","s"," ","n","o"," ","a","t","t","r","i","b","u","t","e"," ","'","g","e","t","'">>

\* str(e) of the AttributeError of .strip() on a message that is no str
strip_error(v) ==
    IF v.t = "None" THEN NONE_STRIP_ERROR
    ELSE <<"'","i","n","t","'"," ","o","b","j","e","c","t"," ","h","a","s"," ","n","o"," ","a","t","t","r","i","b","u","t","e"," ","'","s","t","r","i","p","'">>

\* chat_history[-12:]
ROUTE_HISTORY_LIMIT == 12

\* jsonify({...}), status
http_response(status, body) == [status |-> status, body |-> body]

bad_request(response, error) ==
    http_response(400, [response |-> response, success |-> FALSE, error |-> error])

\* the route's except branch
server_error(e) ==
    http_response(500, [response |-> SERVER_ERROR_RESPONSE, success |-> FALSE, error |-> e])

\* the loop over chat_history[-12:]: entries that are dicts with both keys, as strings.
\* A role is held by its str().
RECURSIVE sanitize_history(_)
sanitize_history(items) ==
    IF items = <<>> THEN <<>>
    ELSE LET item == Head(items)
         IN  (IF item.isdict /\ item.role # "absent" /\ item.content.t # "absent"
              THEN <<[role |-> item.role, content |-> Str(item.content)]>>
              ELSE <<>>)
                 \o sanitize_history(Tail(items))

\* chat_history = data.get('chat_history', []), made a list when it is none
history_list(h) == IF h.t = "list" THEN h.items ELSE <<>>

\* the handler without the test of the stripped message: a blank message goes on
early_response_blank_passes(req) ==
    CASE req.kind = "raises" -> <<server_error(BAD_JSON_ERROR)>>
      [] req.kind = "null" -> <<bad_request(NO_MESSAGE_RESPONSE, NO_MESSAGE_ERROR)>>
      [] req.kind = "list" -> <<server_error(LIST_GET_ERROR)>>
      [] req.message.t = "absent" -> <<bad_request(NO_MESSAGE_RESPONSE, NO_MESSAGE_ERROR)>>
      [] req.message.t # "str" -> <<server_error(strip_error(req.message))>>
      [] OTHER -> <<>>

\* what the handler does before it reaches the service, if it does not reach it:
\* the response it sends, or <<>> when the request goes on to the service
early_response(req) ==
    CASE req.kind = "raises" -> <<server_error(BAD_JSON_ERROR)>>
      [] req.kind = "null" -> <<bad_request(NO_MESSAGE_RESPONSE, NO_MESSAGE_ERROR)>>
      [] req.kind = "list" -> <<server_error(LIST_GET_ERROR)>>
      [] req.message.t = "absent" -> <<bad_request(NO_MESSAGE_RESPONSE, NO_MESSAGE_ERROR)>>
      [] req.message.t # "str" -> <<server_error(strip_error(req.message))>>
      [] Strip(req.message.s) = <<>> ->
            <<bad_request(EMPTY_MESSAGE_RESPONSE, EMPTY_MESSAGE_ERROR)>>
      [] OTHER -> <<>>

\* get_chatbot_service(), run without interruption
get_chatbot_service ==
    IF chatbot_service = 0
    THEN /\ constructed' = constructed + 1
         /\ chatbot_service' = constructed + 1
    ELSE UNCHANGED <<chatbot_service, constructed>>

\* the handler from the request to its early response or to the service call
Chatbot(req, db_products) ==
    /\ pc = "idle"
    /\ request = NoRequest
    /\ request' = req
    /\ IF early_response(req) # <<>>
       THEN /\ http' = early_response(req)
            /\ invocations' = 0
            /\ UNCHANGED <<chatbot_service, constructed>>
            /\ UNCHANGED service_vars
       ELSE /\ http' = <<>>
            /\ invocations' = invocations + 1
            /\ get_chatbot_service
            /\ call_body("get_chatbot_response_with_products",
                         Strip(req.message.s),
                         [kind |-> "list",
                          items |-> sanitize_history(
                                        LastN(history_list(req.chat_history),
                                              ROUTE_HISTORY_LIMIT))],
                         db_products)
    /\ UNCHANGED not_route_vars

\* return jsonify(response), 200
Respond ==
    /\ pc = "done"
    /\ request # NoRequest
    /\ http = <<>>
    /\ http' = <<http_response(200, returned[1])>>
    /\ UNCHANGED <<chatbot_service, constructed, request, invocations>>
    /\ UNCHANGED service_vars
    /\ UNCHANGED not_route_vars

\* the response is on its way; the worker takes the next request
Finish ==
    /\ request # NoRequest
    /\ http # <<>>
    /\ IF pc = "done" THEN return_body ELSE UNCHANGED service_vars
    /\ request' = NoRequest
    /\ http' = <<>>
    /\ invocations' = 0
    /\ UNCHANGED <<chatbot_service, constructed>>
    /\ UNCHANGED not_route_vars

RouteNext ==
    \/ \E req \in Requests, db_products \in DbProducts : Chatbot(req, db_products)
    \/ ClientMissing
    \/ \E e \in RemoteErrors : RemoteRaises(e)
    \/ \E c \in Completions : RemoteReturns(c)
    \/ Respond
    \/ Finish

RouteSpec == Init /\ [][RouteNext]_vars

\* the remote model was called with the messages of the running call
SentToModel == calls >= 1

\* C14: every message sent to the remote model has a role among system, user and
\* assistant, for every chat_history a client can submit to /chatbot.
C14_RolesAreClosed ==
    SentToModel =>
        \A i \in DOMAIN messages : messages[i].role \in {"system", "user", "assistant"}

\* the body is a JSON object whose message is a string that is not empty when stripped
HasMessage(req) ==
    /\ req.kind = "dict"
    /\ req.message.t = "str"
    /\ Strip(req.message.s) # <<>>

Responded == http # <<>>

\* what C19 and its amended form share: the service is called at most once for a
\* request, only for a request with a message, and its envelope is the body sent
\* with status 200
C19_Invocation ==
    /\ invocations <= 1
    /\ Len(http) <= 1
    /\ invocations = 1 => HasMessage(request)
    /\ calls >= 1 => invocations = 1
    /\ (Responded /\ HasMessage(request)) =>
          /\ invocations = 1
          /\ http[1] = [status |-> 200, body |-> returned[1]]

TurnedDown(req) ==
    \/ req.kind = "null"
    \/ (req.kind = "dict" /\ req.message.t = "absent")
    \/ (req.kind = "dict" /\ req.message.t = "str" /\ Strip(req.message.s) = <<>>)

-----------------------------------------------------------------------------
(* POST /chatbot served by concurrent threads.  Each step is one the interpreter *)
(* can switch threads after; the request bodies are valid and are left out.      *)

\* what a step of a request thread leaves alone
not_thread_vars == <<service_vars, request, http, invocations, memo_vars, shop_vars>>

\* a request with a usable message reaches `service = get_chatbot_service()`
Arrive(t) ==
    /\ thread_pc[t] = "idle"
    /\ thread_pc' = [thread_pc EXCEPT ![t] = "test_service"]
    /\ UNCHANGED <<thread_service, store_kw_re_writes, chatbot_service, constructed>>
    /\ UNCHANGED not_thread_vars

\* if _chatbot_service is None:
TestService(t) ==
    /\ thread_pc[t] = "test_service"
    /\ thread_pc' = [thread_pc EXCEPT
                       ![t] = IF chatbot_service = 0 THEN "construct" ELSE "load"]
    /\ UNCHANGED <<thread_service, store_kw_re_writes, chatbot_service, constructed>>
    /\ UNCHANGED not_thread_vars

\* ChatbotService()
ConstructService(t) ==
    /\ thread_pc[t] = "construct"
    /\ constructed' = constructed + 1
    /\ thread_service' = [thread_service EXCEPT ![t] = constructed + 1]
    /\ thread_pc' = [thread_pc EXCEPT ![t] = "store"]
    /\ UNCHANGED <<store_kw_re_writes, chatbot_service>>
    /\ UNCHANGED not_thread_vars

\* _chatbot_service = <the new instance>
StoreService(t) ==
    /\ thread_pc[t] = "store"
    /\ chatbot_service' = thread_service[t]
    /\ thread_pc' = [thread_pc EXCEPT ![t] = "load"]
    /\ UNCHANGED <<thread_service, store_kw_re_writes, constructed>>
    /\ UNCHANGED not_thread_vars

\* return _chatbot_service
LoadService(t) ==
    /\ thread_pc[t] = "load"
    /\ thread_service' = [thread_service EXCEPT ![t] = chatbot_service]
    /\ thread_pc' = [thread_pc EXCEPT ![t] = "call"]
    /\ UNCHANGED <<store_kw_re_writes, chatbot_service, constructed>>
    /\ UNCHANGED not_thread_vars

\* _build_messages and _call_model: with a completion text the classifier is reached,
\* otherwise the entry point returns its failure envelope
CallModel(t, completed) ==
    /\ thread_pc[t] = "call"
    /\ thread_pc' = [thread_pc EXCEPT ![t] = IF completed THEN "test_matcher" ELSE "done"]
    /\ UNCHANGED <<thread_service, store_kw_re_writes, chatbot_service, constructed>>
    /\ UNCHANGED not_thread_vars

\* if not hasattr(self, "_store_kw_re"):
TestMatcher(t) ==
    /\ thread_pc[t] = "test_matcher"
    /\ thread_pc' = [thread_pc EXCEPT
                       ![t] = IF store_kw_re_writes[thread_service[t]] = 0
                              THEN "compile" ELSE "search"]
    /\ UNCHANGED <<thread_service, store_kw_re_writes, chatbot_service, constructed>>
    /\ UNCHANGED not_thread_vars

\* self._store_kw_re = re.compile(pattern)
CompileMatcher(t) ==
    /\ thread_pc[t] = "compile"
    /\ store_kw_re_writes' =
          [store_kw_re_writes EXCEPT ![thread_service[t]] = @ + 1]
    /\ thread_pc' = [thread_pc EXCEPT ![t] = "search"]
    /\ UNCHANGED <<thread_service, chatbot_service, constructed>>
    /\ UNCHANGED not_thread_vars

\* the search, the classifier's second call if any (the attribute is set by then), and
\* the envelope
SearchMatcher(t) ==
    /\ thread_pc[t] = "search"
    /\ thread_pc' = [thread_pc EXCEPT ![t] = "done"]
    /\ UNCHANGED <<thread_service, store_kw_re_writes, chatbot_service, constructed>>
    /\ UNCHANGED not_thread_vars

\* the response is sent and the thread takes the next request
Leave(t) ==
    /\ thread_pc[t] = "done"
    /\ thread_pc' = [thread_pc EXCEPT ![t] = "idle"]
    /\ thread_service' = [thread_service EXCEPT ![t] = 0]
    /\ UNCHANGED <<store_kw_re_writes, chatbot_service, constructed>>
    /\ UNCHANGED not_thread_vars

ThreadNext ==
    \E t \in Threads :
        \/ Arrive(t)
        \/ TestService(t)
        \/ ConstructService(t)
        \/ StoreService(t)
        \/ LoadService(t)
        \/ \E completed \in BOOLEAN : CallModel(t, completed)
        \/ TestMatcher(t)
        \/ CompileMatcher(t)
        \/ SearchMatcher(t)
        \/ Leave(t)

ThreadSpec == Init /\ [][ThreadNext]_vars

\* get_chatbot_service() has returned to thread t
Received(t) == thread_pc[t] \in {"call", "test_matcher", "compile", "search", "done"}

\* C17: under any interleaving of concurrent calls on one shared instance the
\* classifier's matcher is constructed at most once and never written again: no
\* instance's _store_kw_re is assigned twice.
C17_MatcherWrittenOnce ==
    \A i \in Instances : store_kw_re_writes[i] <= 1

\* C18: under any interleaving of concurrent requests get_chatbot_service constructs at
\* most one ChatbotService, and every request receives that same instance.
C18_OneServicePerProcess ==
    /\ constructed <= 1
    /\ \A t, u \in Threads :
          (Received(t) /\ Received(u)) => thread_service[t] = thread_service[u]

-----------------------------------------------------------------------------
(* The cart and checkout handlers of routes/shop.py, each run as one request of *)
(* the logged-in user.  db.session.rollback() drops everything the request has  *)
(* added, changed or deleted since the last commit; db.session.commit() keeps it. *)

\* what a shop handler leaves alone
not_shop_vars == <<service_vars, route_vars, memo_vars, thread_vars>>

ORDER_PLACED == <<"Your order has been placed successfully!">>

NOT_ENOUGH_STOCK(p) == <<"Not enough stock for ", p, ". Please adjust your cart.">>

\* the rows as the handler finds them
db_rows ==
    [product_stock |-> product_stock, cart_items |-> cart_items,
     orders |-> orders, order_items |-> order_items]

\* CartItem.query.filter_by(user_id=..., product_id=p).first(): its position, 0 if none
cart_item_of(p) ==
    IF \E i \in 1..Len(cart_items) : cart_items[i].product_id = p
    THEN CHOOSE i \in 1..Len(cart_items) :
            /\ cart_items[i].product_id = p
            /\ \A j \in 1..(i - 1) : cart_items[j].product_id # p
    ELSE 0

\* POST /product/<p> with the form's quantity
AddToCart(p, quantity) ==
    /\ IF quantity <= 0
       THEN /\ flashed' = <<"Quantity must be at least 1.">>
            /\ UNCHANGED cart_items
       ELSE IF product_stock[p] < quantity
       THEN /\ flashed' = <<"Insufficient stock. Only ", product_stock[p], " left.">>
            /\ UNCHANGED cart_items
       ELSE /\ IF cart_item_of(p) # 0
               THEN /\ cart_items[cart_item_of(p)].quantity + quantity <= MaxCartQuantity
                    /\ cart_items' = [cart_items EXCEPT
                                        ![cart_item_of(p)].quantity = @ + quantity]
               ELSE cart_items' =
                       Append(cart_items, [product_id |-> p, quantity |-> quantity])
            /\ flashed' = <<quantity, " x ", p, " added to your cart!">>
    /\ UNCHANGED <<product_stock, orders, order_items>>
    /\ UNCHANGED not_shop_vars

\* GET /cart/remove/<id> for the user's own row at position i
RemoveFromCart(i) ==
    /\ i \in 1..Len(cart_items)
    /\ cart_items' = SubSeq(cart_items, 1, i - 1) \o SubSeq(cart_items, i + 1, Len(cart_items))
    /\ flashed' = <<"Item removed from cart.">>
    /\ UNCHANGED <<product_stock, orders, order_items>>
    /\ UNCHANGED not_shop_vars

\* the loop of checkout over the cart rows left to process, on the session's rows
RECURSIVE process_items(_, _)
process_items(items, session) ==
    IF items = <<>> THEN [placed |-> TRUE, short |-> 0, session |-> session]
    ELSE LET item == Head(items)
         IN  IF session.product_stock[item.product_id] < item.quantity
             THEN [placed |-> FALSE, short |-> item.product_id, session |-> session]
             ELSE process_items(
                     Tail(items),
                     [session EXCEPT
                        !.product_stock[item.product_id] = @ - item.quantity,
                        !.order_items[item.product_id] = @ + item.quantity,
                        !.cart_items = Tail(@)])

\* commit() called where rollback() is meant: the rows changed so far are kept
rollback_keeps_session(committed, session) == session

\* db.session.rollback(): the rows are the committed ones again
rollback(committed, session) == committed

\* /checkout: the page alone when the form is not submitted or not valid, else the
\* order, the loop and the commit or the rollback
Checkout(submitted) ==
    /\ IF cart_items = <<>>
       THEN /\ flashed' = <<"Your cart is empty!">>
            /\ UNCHANGED <<product_stock, cart_items, orders, order_items>>
       ELSE IF ~submitted
       THEN UNCHANGED shop_vars
       ELSE LET result == process_items(cart_items, [db_rows EXCEPT !.orders = @ + 1])
                rows == IF result.placed THEN result.session
                        ELSE rollback(db_rows, result.session)
            IN  /\ product_stock' = rows.product_stock
                /\ cart_items' = rows.cart_items
                /\ orders' = rows.orders
                /\ order_items' = rows.order_items
                /\ flashed' = IF result.placed THEN ORDER_PLACED
                              ELSE NOT_ENOUGH_STOCK(result.short)
    /\ UNCHANGED not_shop_vars

ShopNext ==
    \/ \E p \in ProductIds, quantity \in 0..MaxQuantity : AddToCart(p, quantity)
    \/ \E i \in 1..Len(cart_items) : RemoveFromCart(i)
    \/ \E submitted \in BOOLEAN : Checkout(submitted)

ShopSpec == Init /\ [][ShopNext]_vars

\* the quantity of product p in the cart rows
RECURSIVE Quantity(_, _)
Quantity(items, p) ==
    IF items = <<>> THEN 0
    ELSE (IF Head(items).product_id = p THEN Head(items).quantity ELSE 0)
            + Quantity(Tail(items), p)

\* the stock cart row i finds when it is processed: what the rows before it left
StockWhenProcessed(i) ==
    product_stock[cart_items[i].product_id]
        - Quantity(SubSeq(cart_items, 1, i - 1), cart_items[i].product_id)

\* some cart row asks for more than the stock it finds
SomeItemShort ==
    \E i \in 1..Len(cart_items) : cart_items[i].quantity > StockWhenProcessed(i)

\* the step is a checkout that went through its loop
CheckoutProcessed ==
    \/ flashed' = ORDER_PLACED
    \/ \E p \in ProductIds : flashed' = NOT_ENOUGH_STOCK(p)

C20_CheckoutStep ==
    (CheckoutProcessed /\ cart_items # <<>>) =>
        IF SomeItemShort
        THEN /\ UNCHANGED <<product_stock, cart_items, orders, order_items>>
             /\ flashed' # ORDER_PLACED
        ELSE /\ \A p \in ProductIds :
                   /\ product_stock'[p] = product_stock[p] - Quantity(cart_items, p)
                   /\ product_stock'[p] >= 0
                   /\ order_items'[p] = order_items[p] + Quantity(cart_items, p)
             /\ orders' = orders + 1
             /\ cart_items' = <<>>
             /\ flashed' = ORDER_PLACED

\* no more units are in orders than have left the stock
NeverOversold ==
    \A p \in ProductIds :
        /\ product_stock[p] >= 0
        /\ product_stock[p] + order_items[p] = MaxStock

\* C20: checkout is all-or-nothing and never oversells: when a cart row asks for more
\* than the stock it finds the request is rolled back, so no stock changes, no order or
\* order item is kept and the cart keeps its rows; otherwise every product's stock goes
\* down by exactly the ordered quantity, stays >= 0, and the cart is emptied.
C20_CheckoutAllOrNothing ==
    /\ []NeverOversold
    /\ [][C20_CheckoutStep]_vars

\* a checkout rolled back at its second row, after the first row had been processed,
\* with an earlier order in place
C20_Witness ==
    /\ Len(cart_items) = 2
    /\ flashed = NOT_ENOUGH_STOCK(cart_items[2].product_id)
    /\ product_stock[cart_items[1].product_id] >= cart_items[1].quantity
    /\ product_stock[cart_items[2].product_id] < cart_items[2].quantity
    /\ orders = 1

====
